---- MODULE Spec2Model ----
(***************************************************************************)
(* Karn.ai Card IR Generator (services/card-ir-generator).                 *)
(*                                                                         *)
(* Python str values are modelled as sequences of one-character strings,   *)
(* so that substring tests, prefixes, lower() and replace() are computed   *)
(* character by character as the interpreter does.  Enumerated literals of *)
(* the program that are never searched (ability types, zone names, tag     *)
(* names, dict keys) are plain strings.  None is the value None below.     *)
(***************************************************************************)
EXTENDS Integers, Sequences, FiniteSets, TLC

----------------------------------------------------------------------------
(* Python built-ins used by the program                                    *)

None == <<"None">>

UpperChars == <<"A","B","C","D","E","F","G","H","I","J","K","L","M","N","O","P","Q","R","S","T","U","V","W","X","Y","Z">>

LowerChars == <<"a","b","c","d","e","f","g","h","i","j","k","l","m","n","o","p","q","r","s","t","u","v","w","x","y","z">>

DigitChars == <<"0","1","2","3","4","5","6","7","8","9">>

Range(s) == {s[i] : i \in 1..Len(s)}

Digits == Range(DigitChars)

\* str.lower() on one character (ASCII letters)
LowerOf == [c \in Range(UpperChars) |->
              LowerChars[CHOOSE i \in 1..Len(UpperChars) : UpperChars[i] = c]]

char_lower(c) == IF c \in DOMAIN LowerOf THEN LowerOf[c] ELSE c

\* str.lower()
str_lower(s) == [i \in 1..Len(s) |-> char_lower(s[i])]

\* whether p occurs in s starting at index i
MatchAt(p, s, i) ==
  /\ i >= 1
  /\ i + Len(p) - 1 <= Len(s)
  /\ \A k \in 1..Len(p) : s[i + k - 1] = p[k]

\* the Python expression  p in s
str_in(p, s) == \E i \in 1..(Len(s) - Len(p) + 1) : MatchAt(p, s, i)

\* str.startswith
str_startswith(s, p) == MatchAt(p, s, 1)

\* str.replace(old, new) for single characters old and new
str_replace(s, old, new) == [i \in 1..Len(s) |-> IF s[i] = old THEN new ELSE s[i]]

\* str.strip() (whitespace is space, tab, newline)
IsSpace(c) == c \in {" ", "\t", "\n"}

str_strip(s) ==
  IF \A i \in 1..Len(s) : IsSpace(s[i]) THEN <<>>
  ELSE LET a == CHOOSE i \in 1..Len(s) :
                  ~IsSpace(s[i]) /\ \A k \in 1..(i - 1) : IsSpace(s[k])
           b == CHOOSE i \in 1..Len(s) :
                  ~IsSpace(s[i]) /\ \A k \in (i + 1)..Len(s) : IsSpace(s[k])
       IN SubSeq(s, a, b)

\* int() of a run of decimal digits
DigitVal(c) == (CHOOSE i \in 1..Len(DigitChars) : DigitChars[i] = c) - 1

RECURSIVE str_int(_)
str_int(s) ==
  IF s = <<>> THEN 0
  ELSE 10 * str_int(SubSeq(s, 1, Len(s) - 1)) + DigitVal(s[Len(s)])

\* dict.get(key, default); a dict is a function whose DOMAIN is its keys
dict_get(d, key, default) == IF key \in DOMAIN d THEN d[key] ELSE default

\* the elements of a finite set of integers in increasing order
RECURSIVE Ascending(_)
Ascending(S) ==
  IF S = {} THEN <<>>
  ELSE LET m == CHOOSE x \in S : \A y \in S : x <= y
       IN <<m>> \o Ascending(S \ {m})

\* the regular expression classes \w and \b of module re
WordChars == Range(UpperChars) \cup Range(LowerChars) \cup Range(DigitChars) \cup {"_"}

IsWordChar(c) == c \in WordChars

WordAt(s, i) == i >= 1 /\ i <= Len(s) /\ IsWordChar(s[i])

\* \b between index i - 1 and index i
Boundary(s, i) == WordAt(s, i - 1) # WordAt(s, i)

----------------------------------------------------------------------------
(* String literals of the program, as character sequences                  *)

\* the literals and regular expression pieces of class AbilityParser
PARSER_TEXT ==
  [colon |-> <<":">>,
   when |-> <<"w","h","e","n">>,
   whenever |-> <<"w","h","e","n","e","v","e","r">>,
   at_the_beginning |-> <<"a","t"," ","t","h","e"," ","b","e","g","i","n","n","i","n","g">>,
   flying |-> <<"f","l","y","i","n","g">>,
   trample |-> <<"t","r","a","m","p","l","e">>,
   haste |-> <<"h","a","s","t","e">>,
   vigilance |-> <<"v","i","g","i","l","a","n","c","e">>,
   tap |-> <<"t","a","p">>,
   t |-> <<"t">>,
   Tap |-> <<"T","a","p">>,
   when_ |-> <<"w","h","e","n"," ">>,
   enters |-> <<" ","e","n","t","e","r","s">>,
   whenever_ |-> <<"w","h","e","n","e","v","e","r"," ">>,
   dies |-> <<" ","d","i","e","s">>,
   deals_ |-> <<"d","e","a","l","s"," ">>,
   damage_to_ |-> <<" ","d","a","m","a","g","e"," ","t","o"," ">>]

\* the literals of class StrategicTagger
TAGGER_TEXT ==
  [deals |-> <<"d","e","a","l","s">>,
   damage |-> <<"d","a","m","a","g","e">>,
   destroy |-> <<"d","e","s","t","r","o","y">>,
   exile |-> <<"e","x","i","l","e">>,
   return_to_hand |-> <<"r","e","t","u","r","n"," ","t","o"," ","h","a","n","d">>,
   counter_target |-> <<"c","o","u","n","t","e","r"," ","t","a","r","g","e","t">>,
   prevent |-> <<"p","r","e","v","e","n","t">>,
   indestructible |-> <<"i","n","d","e","s","t","r","u","c","t","i","b","l","e">>,
   hexproof |-> <<"h","e","x","p","r","o","o","f">>,
   return |-> <<"r","e","t","u","r","n">>,
   bounce |-> <<"b","o","u","n","c","e">>,
   draw |-> <<"d","r","a","w">>,
   cards |-> <<"c","a","r","d","s">>,
   search |-> <<"s","e","a","r","c","h">>,
   library |-> <<"l","i","b","r","a","r","y">>,
   add_mana |-> <<"a","d","d"," ","m","a","n","a">>,
   lands |-> <<"l","a","n","d","s">>,
   mana_cost |-> <<"m","a","n","a"," ","c","o","s","t">>,
   instant |-> <<"i","n","s","t","a","n","t">>,
   flash |-> <<"f","l","a","s","h">>,
   combo |-> <<"c","o","m","b","o">>,
   infinite |-> <<"i","n","f","i","n","i","t","e">>,
   win_the_game |-> <<"w","i","n"," ","t","h","e"," ","g","a","m","e">>,
   enchantment |-> <<"e","n","c","h","a","n","t","m","e","n","t">>,
   artifact |-> <<"a","r","t","i","f","a","c","t">>,
   each_player |-> <<"e","a","c","h"," ","p","l","a","y","e","r">>,
   all_players |-> <<"a","l","l"," ","p","l","a","y","e","r","s">>]

\* the literals of class CardIRGenerator
GENERATOR_TEXT ==
  [colon |-> <<":">>,
   instant |-> <<"i","n","s","t","a","n","t">>,
   enchantment |-> <<"e","n","c","h","a","n","t","m","e","n","t">>,
   artifact |-> <<"a","r","t","i","f","a","c","t">>,
   unknown |-> <<"u","n","k","n","o","w","n">>,
   main_effect |-> <<"_","m","a","i","n","_","e","f","f","e","c","t">>,
   not_legal |-> <<"n","o","t","_","l","e","g","a","l">>,
   legendary |-> <<"l","e","g","e","n","d","a","r","y">>,
   creature |-> <<"c","r","e","a","t","u","r","e">>,
   planeswalker |-> <<"p","l","a","n","e","s","w","a","l","k","e","r">>,
   sorcery |-> <<"s","o","r","c","e","r","y">>,
   enters_tapped |-> <<"e","n","t","e","r","s"," ","t","a","p","p","e","d">>,
   enters_the_battlefield_tapped |-> <<"e","n","t","e","r","s"," ","t","h","e"," ","b","a","t","t","l","e","f","i","e","l","d"," ","t","a","p","p","e","d">>,
   graveyard |-> <<"g","r","a","v","e","y","a","r","d">>,
   activate |-> <<"a","c","t","i","v","a","t","e">>,
   ir_version |-> <<"1",".","0",".","0">>,
   sample_card_ |-> <<"s","a","m","p","l","e","_","c","a","r","d","_">>,
   sample_card_ir_ |-> <<"s","a","m","p","l","e","_","c","a","r","d","_","i","r","_">>,
   ir_ |-> <<"i","r","_">>,
   dot_json |-> <<".","j","s","o","n">>]

----------------------------------------------------------------------------
(* class AbilityParser                                                     *)

TRIGGER_WORDS == <<PARSER_TEXT.when, PARSER_TEXT.whenever, PARSER_TEXT.at_the_beginning>>

KEYWORD_WORDS == <<PARSER_TEXT.flying, PARSER_TEXT.trample, PARSER_TEXT.haste, PARSER_TEXT.vigilance>>

\* any(w in s for w in words)
any_in(words, s) == \E k \in 1..Len(words) : str_in(words[k], s)

\* the same tests with the first two branches exchanged
classify_trigger_first(text) ==
  IF any_in(TRIGGER_WORDS, str_lower(text)) THEN "triggered"
  ELSE IF str_in(PARSER_TEXT.colon, text) THEN "activated"
  ELSE IF any_in(KEYWORD_WORDS, str_lower(text)) THEN "keyword"
  ELSE "static"

classify_ability_type(text) ==
  IF str_in(PARSER_TEXT.colon, text) THEN "activated"
  ELSE IF any_in(TRIGGER_WORDS, str_lower(text)) THEN "triggered"
  ELSE IF any_in(KEYWORD_WORDS, str_lower(text)) THEN "keyword"
  ELSE "static"

\* the character class [WUBRG\d]
ManaClass == {"W", "U", "B", "R", "G"} \cup Digits

\* text[i..j] is one match of \{([WUBRG\d]+)\}
ManaMatch(text, i, j) ==
  /\ i >= 1 /\ j <= Len(text) /\ j >= i + 2
  /\ text[i] = "{" /\ text[j] = "}"
  /\ \A k \in (i + 1)..(j - 1) : text[k] \in ManaClass

ManaStarts(text) ==
  {i \in 1..Len(text) : text[i] = "{" /\ \E j \in (i + 2)..Len(text) : ManaMatch(text, i, j)}

\* re.findall of the mana pattern: matches cannot overlap, so every match is found
mana_costs(text) ==
  LET starts == Ascending(ManaStarts(text))
  IN [n \in 1..Len(starts) |->
        LET i == starts[n]
            j == CHOOSE e \in (i + 2)..Len(text) : ManaMatch(text, i, e)
        IN [type |-> "mana", value |-> SubSeq(text, i, j)]]

\* the lowercase word w stands at index i of text, matched ignoring case (?i),
\* with a word boundary \b on both sides
WholeWordAt(w, text, i) ==
  /\ i + Len(w) - 1 <= Len(text)
  /\ \A k \in 1..Len(w) : char_lower(text[i + k - 1]) = w[k]
  /\ Boundary(text, i)
  /\ Boundary(text, i + Len(w))

\* re.search(r'(?i)\b(tap|t)\b', text)
has_tap_word(text) ==
  \E i \in 1..Len(text) : WholeWordAt(PARSER_TEXT.tap, text, i) \/ WholeWordAt(PARSER_TEXT.t, text, i)

extract_costs(text) ==
  mana_costs(text) \o
  (IF has_tap_word(text) THEN <<[type |-> "tap", value |-> PARSER_TEXT.Tap]>> ELSE <<>>)

\* no newline in s[a..b]: the regular expression "." does not match a newline
NoNewline(s, a, b) == \A k \in a..b : s[k] # "\n"

\* s[i..e] is a match of  pre .* post  (pre and post hold no newline)
DotStarMatch(pre, post, s, i, e) ==
  /\ MatchAt(pre, s, i)
  /\ e - Len(post) + 1 >= i + Len(pre)
  /\ MatchAt(post, s, e - Len(post) + 1)
  /\ NoNewline(s, i + Len(pre), e - Len(post))

\* some match of  pre .* post  starts at index i
DotStarAt(pre, post, s, i) ==
  MatchAt(pre, s, i) /\ \E e \in i..Len(s) : DotStarMatch(pre, post, s, i, e)

DotStarFound(pre, post, s) == \E i \in 1..Len(s) : DotStarAt(pre, post, s, i)

\* re.search(pre .* post, s).group(0): leftmost start, then the longest match
DotStarGroup(pre, post, s) ==
  LET i == CHOOSE a \in 1..Len(s) :
             /\ DotStarAt(pre, post, s, a)
             /\ \A b \in 1..(a - 1) : ~DotStarAt(pre, post, s, b)
      e == CHOOSE x \in i..Len(s) :
             /\ DotStarMatch(pre, post, s, i, x)
             /\ \A y \in (x + 1)..Len(s) : ~DotStarMatch(pre, post, s, i, y)
  IN SubSeq(s, i, e)

\* a scan that stops at the first template that matches
extract_triggers_first_template(text) ==
  LET low == str_lower(text)
  IN IF DotStarFound(PARSER_TEXT.when_, PARSER_TEXT.enters, low)
     THEN <<[condition |-> DotStarGroup(PARSER_TEXT.when_, PARSER_TEXT.enters, low), timing |-> "when"]>>
     ELSE IF DotStarFound(PARSER_TEXT.whenever_, PARSER_TEXT.dies, low)
     THEN <<[condition |-> DotStarGroup(PARSER_TEXT.whenever_, PARSER_TEXT.dies, low), timing |-> "whenever"]>>
     ELSE IF str_in(PARSER_TEXT.at_the_beginning, low)
     THEN <<[condition |-> PARSER_TEXT.at_the_beginning, timing |-> "at"]>>
     ELSE <<>>

extract_triggers(text) ==
  LET low == str_lower(text)
  IN (IF DotStarFound(PARSER_TEXT.when_, PARSER_TEXT.enters, low)
      THEN <<[condition |-> DotStarGroup(PARSER_TEXT.when_, PARSER_TEXT.enters, low), timing |-> "when"]>>
      ELSE <<>>)
     \o
     (IF DotStarFound(PARSER_TEXT.whenever_, PARSER_TEXT.dies, low)
      THEN <<[condition |-> DotStarGroup(PARSER_TEXT.whenever_, PARSER_TEXT.dies, low), timing |-> "whenever"]>>
      ELSE <<>>)
     \o
     (IF str_in(PARSER_TEXT.at_the_beginning, low)
      THEN <<[condition |-> PARSER_TEXT.at_the_beginning, timing |-> "at"]>>
      ELSE <<>>)

\* the number of digits of the maximal digit run of s starting at index i
RECURSIVE DigitRun(_, _)
DigitRun(s, i) ==
  IF i <= Len(s) /\ s[i] \in Digits THEN 1 + DigitRun(s, i + 1) ELSE 0

\* where (?:\.|$) matches after s[e]: a period, the end, or the end before a last newline
EffectStop(s, e) ==
  \/ e = Len(s)
  \/ e + 1 <= Len(s) /\ s[e + 1] = "."
  \/ e + 1 = Len(s) /\ s[e + 1] = "\n"

\* deals (\d+) damage to (.+?)(?:\.|$) matches s from index i
EffectAt(s, i) ==
  LET nd == DigitRun(s, i + Len(PARSER_TEXT.deals_))
      k  == i + Len(PARSER_TEXT.deals_) + nd + Len(PARSER_TEXT.damage_to_)
  IN /\ MatchAt(PARSER_TEXT.deals_, s, i)
     /\ nd >= 1
     /\ MatchAt(PARSER_TEXT.damage_to_, s, i + Len(PARSER_TEXT.deals_) + nd)
     /\ \E e \in k..Len(s) : NoNewline(s, k, e) /\ EffectStop(s, e)

\* the match at i: its digits, its target and the index after the match
EffectMatch(s, i) ==
  LET nd == DigitRun(s, i + Len(PARSER_TEXT.deals_))
      k  == i + Len(PARSER_TEXT.deals_) + nd + Len(PARSER_TEXT.damage_to_)
      e  == CHOOSE x \in k..Len(s) :
              /\ NoNewline(s, k, x) /\ EffectStop(s, x)
              /\ \A y \in k..(x - 1) : ~EffectStop(s, y)
  IN [damage |-> SubSeq(s, i + Len(PARSER_TEXT.deals_), i + Len(PARSER_TEXT.deals_) + nd - 1),
      target |-> SubSeq(s, k, e),
      next   |-> IF e + 1 <= Len(s) /\ s[e + 1] = "." THEN e + 2 ELSE e + 1]

\* re.findall: scan left to right, resuming after each match
RECURSIVE damage_effects(_, _)
damage_effects(s, from) ==
  IF \E i \in from..Len(s) : EffectAt(s, i)
  THEN LET i == CHOOSE a \in from..Len(s) :
                  EffectAt(s, a) /\ \A b \in from..(a - 1) : ~EffectAt(s, b)
           m == EffectMatch(s, i)
       IN <<[type |-> "damage", targets |-> <<str_strip(m.target)>>,
             value |-> str_int(m.damage)]>>
          \o damage_effects(s, m.next)
  ELSE <<>>

extract_effects(text) == damage_effects(str_lower(text), 1)

parse_ability(text, ability_id) ==
  [ability_id |-> ability_id,
   ability_type |-> classify_ability_type(text),
   raw_text |-> text,
   parsed_components |-> [costs |-> extract_costs(text),
                          triggers |-> extract_triggers(text),
                          effects |-> extract_effects(text)]]

----------------------------------------------------------------------------
(* class StrategicTagger                                                   *)

\* the table with an empty string left in one substring list
TAG_RULES_EMPTY_PATTERN ==
  << [category |-> "interaction", subcategory |-> "removal", is_callable |-> FALSE,
      patterns |-> <<TAGGER_TEXT.deals, TAGGER_TEXT.damage, TAGGER_TEXT.destroy, TAGGER_TEXT.exile, TAGGER_TEXT.return_to_hand>>],
     [category |-> "interaction", subcategory |-> "counterspell", is_callable |-> FALSE,
      patterns |-> <<TAGGER_TEXT.counter_target>>],
     [category |-> "interaction", subcategory |-> "protection", is_callable |-> FALSE,
      patterns |-> <<TAGGER_TEXT.prevent, TAGGER_TEXT.indestructible, TAGGER_TEXT.hexproof>>],
     [category |-> "tempo", subcategory |-> "low_cost_interaction", is_callable |-> TRUE,
      patterns |-> <<>>],
     [category |-> "tempo", subcategory |-> "bounce", is_callable |-> FALSE,
      patterns |-> <<TAGGER_TEXT.return, TAGGER_TEXT.bounce, <<>>>>],
     [category |-> "value", subcategory |-> "card_draw", is_callable |-> FALSE,
      patterns |-> <<TAGGER_TEXT.draw, TAGGER_TEXT.cards>>],
     [category |-> "value", subcategory |-> "tutoring", is_callable |-> FALSE,
      patterns |-> <<TAGGER_TEXT.search, TAGGER_TEXT.library>>],
     [category |-> "ramp", subcategory |-> "mana_acceleration", is_callable |-> FALSE,
      patterns |-> <<TAGGER_TEXT.add_mana, TAGGER_TEXT.lands, TAGGER_TEXT.mana_cost>>] >>

\* StrategicTagger.TAG_RULES as declared: a dict keeps its insertion order.
\* A matcher is a list of substrings or a callable (the lambda on cmc).
TAG_RULES_DECLARED ==
  << [category |-> "interaction", subcategory |-> "removal", is_callable |-> FALSE,
      patterns |-> <<TAGGER_TEXT.deals, TAGGER_TEXT.damage, TAGGER_TEXT.destroy, TAGGER_TEXT.exile, TAGGER_TEXT.return_to_hand>>],
     [category |-> "interaction", subcategory |-> "counterspell", is_callable |-> FALSE,
      patterns |-> <<TAGGER_TEXT.counter_target>>],
     [category |-> "interaction", subcategory |-> "protection", is_callable |-> FALSE,
      patterns |-> <<TAGGER_TEXT.prevent, TAGGER_TEXT.indestructible, TAGGER_TEXT.hexproof>>],
     [category |-> "tempo", subcategory |-> "low_cost_interaction", is_callable |-> TRUE,
      patterns |-> <<>>],
     [category |-> "tempo", subcategory |-> "bounce", is_callable |-> FALSE,
      patterns |-> <<TAGGER_TEXT.return, TAGGER_TEXT.bounce>>],
     [category |-> "value", subcategory |-> "card_draw", is_callable |-> FALSE,
      patterns |-> <<TAGGER_TEXT.draw, TAGGER_TEXT.cards>>],
     [category |-> "value", subcategory |-> "tutoring", is_callable |-> FALSE,
      patterns |-> <<TAGGER_TEXT.search, TAGGER_TEXT.library>>],
     [category |-> "ramp", subcategory |-> "mana_acceleration", is_callable |-> FALSE,
      patterns |-> <<TAGGER_TEXT.add_mana, TAGGER_TEXT.lands, TAGGER_TEXT.mana_cost>>] >>

\* lambda card: card["card_metadata"]["cmc"] <= 2
low_cost_interaction(card_data) == card_data.card_metadata.cmc <= 2

\* whether the matcher of one rule fires
matcher_fires(rule, card_data, oracle_text) ==
  IF rule.is_callable THEN low_cost_interaction(card_data)
  ELSE any_in(rule.patterns, oracle_text)

confidence(rule) == IF rule.is_callable THEN "0.8" ELSE "0.9"

\* the loop of generate_tags without its break: one entry per matching substring
RECURSIVE hierarchical_from_no_break(_, _, _, _)
hierarchical_from_no_break(rules, n, card_data, oracle_text) ==
  IF n > Len(rules) THEN <<>>
  ELSE (IF rules[n].is_callable
        THEN (IF low_cost_interaction(card_data)
              THEN <<[path |-> <<rules[n].category, rules[n].subcategory>>,
                      confidence |-> "0.8"]>>
              ELSE <<>>)
        ELSE [k \in 1..Cardinality({p \in 1..Len(rules[n].patterns) :
                                      str_in(rules[n].patterns[p], oracle_text)}) |->
                [path |-> <<rules[n].category, rules[n].subcategory>>,
                 confidence |-> "0.9"]])
       \o hierarchical_from_no_break(rules, n + 1, card_data, oracle_text)

\* the loop of generate_tags over rules[n..], appending one entry per firing matcher
RECURSIVE hierarchical_from(_, _, _, _)
hierarchical_from(rules, n, card_data, oracle_text) ==
  IF n > Len(rules) THEN <<>>
  ELSE (IF matcher_fires(rules[n], card_data, oracle_text)
        THEN <<[path |-> <<rules[n].category, rules[n].subcategory>>,
                confidence |-> confidence(rules[n])]>>
        ELSE <<>>)
       \o hierarchical_from(rules, n + 1, card_data, oracle_text)

\* flattened_tags.update(path) for every appended path
flattened_set(hierarchical_tags) ==
  UNION {Range(hierarchical_tags[n].path) : n \in 1..Len(hierarchical_tags)}

\* list(set): the iteration order of a set of str is fixed by the process's string
\* hashes; order is that order over all tag names
RECURSIVE list_of_set(_, _)
list_of_set(S, order) ==
  IF order = <<>> THEN <<>>
  ELSE (IF Head(order) \in S THEN <<Head(order)>> ELSE <<>>) \o list_of_set(S, Tail(order))

COMBO_WORDS == <<TAGGER_TEXT.combo, TAGGER_TEXT.infinite, TAGGER_TEXT.win_the_game>>

generate_archetype_hints(card_data) ==
  LET cmc == card_data.card_metadata.cmc
      type_line == str_lower(card_data.card_metadata.type_line)
      text == str_lower(card_data.card_metadata.oracle_text)
  IN (IF cmc <= 2 THEN <<"aggro">> ELSE <<>>)
     \o (IF cmc >= 6 THEN <<"control">> ELSE <<>>)
     \o (IF str_in(TAGGER_TEXT.instant, type_line) \/ str_in(TAGGER_TEXT.flash, text) THEN <<"tempo">> ELSE <<>>)
     \o (IF any_in(COMBO_WORDS, text) THEN <<"combo">> ELSE <<>>)

\* the same tests with the damage branch first
estimate_damage_first(oracle_text) ==
  IF str_in(TAGGER_TEXT.deals, oracle_text) \/ str_in(TAGGER_TEXT.damage, oracle_text)
     \/ str_in(TAGGER_TEXT.destroy, oracle_text) THEN -1
  ELSE IF str_in(TAGGER_TEXT.draw, oracle_text) THEN 1
  ELSE 0

estimate_card_advantage(oracle_text) ==
  IF str_in(TAGGER_TEXT.draw, oracle_text) THEN 1
  ELSE IF str_in(TAGGER_TEXT.search, oracle_text) THEN 0
  ELSE IF str_in(TAGGER_TEXT.deals, oracle_text) \/ str_in(TAGGER_TEXT.damage, oracle_text)
          \/ str_in(TAGGER_TEXT.destroy, oracle_text) THEN -1
  ELSE 0

generate_reward_hints(card_data, oracle_text) ==
  LET type_line == str_lower(card_data.card_metadata.type_line)
  IN [immediate_impact |-> str_in(TAGGER_TEXT.instant, type_line) \/ str_in(TAGGER_TEXT.flash, oracle_text),
      delayed_impact |-> str_in(TAGGER_TEXT.enchantment, type_line) \/ str_in(TAGGER_TEXT.artifact, type_line),
      symmetrical |-> str_in(TAGGER_TEXT.each_player, oracle_text) \/ str_in(TAGGER_TEXT.all_players, oracle_text),
      card_advantage |-> estimate_card_advantage(oracle_text)]

\* the keys generate_tags and its helpers index in card_data["card_metadata"];
\* indexing a dict with a missing key raises KeyError
TAGGER_KEYS == {"cmc", "type_line", "oracle_text"}

generate_tags_raises(card_data) == ~(TAGGER_KEYS \subseteq DOMAIN card_data.card_metadata)

generate_tags(card_data, rules, order) ==
  LET oracle_text == str_lower(card_data.card_metadata.oracle_text)
      hierarchical_tags == hierarchical_from(rules, 1, card_data, oracle_text)
  IN [hierarchical_tags |-> hierarchical_tags,
      flattened_tags |-> list_of_set(flattened_set(hierarchical_tags), order),
      archetype_hints |-> generate_archetype_hints(card_data),
      reward_hints |-> generate_reward_hints(card_data, oracle_text)]

----------------------------------------------------------------------------
(* class CardIRGenerator: the pure steps of convert_scryfall_to_ir         *)

\* the empty dict
EmptyDict == [k \in {} |-> None]

\* a metadata dict that copies the fields present and fills in no default
extract_metadata_present_only(data) ==
  [k \in (DOMAIN data \ {"id", "legalities"}) \cup (IF "id" \in DOMAIN data THEN {"scryfall_id"} ELSE {})
     |-> IF k = "scryfall_id" THEN data["id"] ELSE data[k]]

extract_metadata(data) ==
  [name |-> dict_get(data, "name", <<>>),
   oracle_id |-> dict_get(data, "oracle_id", <<>>),
   scryfall_id |-> dict_get(data, "id", <<>>),
   mana_cost |-> dict_get(data, "mana_cost", <<>>),
   cmc |-> dict_get(data, "cmc", 0),
   type_line |-> dict_get(data, "type_line", <<>>),
   oracle_text |-> dict_get(data, "oracle_text", <<>>),
   colors |-> dict_get(data, "colors", <<>>),
   color_identity |-> dict_get(data, "color_identity", <<>>),
   keywords |-> dict_get(data, "keywords", <<>>),
   power |-> dict_get(data, "power", None),
   toughness |-> dict_get(data, "toughness", None),
   loyalty |-> dict_get(data, "loyalty", None)]

\* the same without .replace(' ', '_')
ability_id_no_replace(data) ==
  str_lower(dict_get(data, "name", GENERATOR_TEXT.unknown)) \o GENERATOR_TEXT.main_effect

\* f"{data.get('name', 'unknown').lower().replace(' ', '_')}_main_effect"
ability_id_of(data) ==
  str_replace(str_lower(dict_get(data, "name", GENERATOR_TEXT.unknown)), " ", "_") \o GENERATOR_TEXT.main_effect

parse_abilities(data) ==
  LET oracle_text == dict_get(data, "oracle_text", <<>>)
  IN IF oracle_text = <<>> THEN <<>>
     ELSE <<parse_ability(oracle_text, ability_id_of(data))>>

extract_legality(data) ==
  LET legalities == dict_get(data, "legalities", EmptyDict)
      type_line == str_lower(dict_get(data, "type_line", <<>>))
  IN [commander |-> dict_get(legalities, "commander", GENERATOR_TEXT.not_legal),
      can_be_commander |-> str_in(GENERATOR_TEXT.legendary, type_line) /\ str_in(GENERATOR_TEXT.creature, type_line)]

PERMANENT_TYPES == <<GENERATOR_TEXT.creature, GENERATOR_TEXT.artifact, GENERATOR_TEXT.enchantment, GENERATOR_TEXT.planeswalker>>

SPELL_TYPES == <<GENERATOR_TEXT.instant, GENERATOR_TEXT.sorcery>>

\* the zones with the stack test the other way round
zones_stack_for_spells(type_line) ==
  <<"hand">>
  \o (IF any_in(PERMANENT_TYPES, type_line) THEN <<"battlefield">> ELSE <<>>)
  \o <<"graveyard", "exile", "library">>
  \o (IF any_in(SPELL_TYPES, type_line) THEN <<"stack">> ELSE <<>>)

\* type_line is already lowercased
zones_of(type_line) ==
  <<"hand">>
  \o (IF any_in(PERMANENT_TYPES, type_line) THEN <<"battlefield">> ELSE <<>>)
  \o <<"graveyard", "exile", "library">>
  \o (IF ~any_in(SPELL_TYPES, type_line) THEN <<"stack">> ELSE <<>>)

extract_gameplay_metadata(data) ==
  LET type_line == str_lower(dict_get(data, "type_line", <<>>))
      oracle_text == str_lower(dict_get(data, "oracle_text", <<>>))
  IN [zones |-> zones_of(type_line),
      enters_tapped |-> \/ str_in(GENERATOR_TEXT.enters_tapped, oracle_text)
                       \/ str_in(GENERATOR_TEXT.enters_the_battlefield_tapped, oracle_text),
      has_abilities_in_graveyard |->
        /\ str_in(GENERATOR_TEXT.graveyard, oracle_text)
        /\ (str_in(GENERATOR_TEXT.activate, oracle_text) \/ str_in(GENERATOR_TEXT.colon, oracle_text))]

\* the CardIR dataclass; generated_at is the reading of the clock at construction
CardIR(generated_at, card_metadata, parsed_abilities, strategic_tags, format_legality, gameplay_metadata) ==
  [ir_version |-> GENERATOR_TEXT.ir_version,
   generated_at |-> generated_at,
   card_metadata |-> card_metadata,
   parsed_abilities |-> parsed_abilities,
   strategic_tags |-> strategic_tags,
   format_legality |-> format_legality,
   gameplay_metadata |-> gameplay_metadata]

\* how a call ends: it returns a value, or an exception leaves it
Returned(v) == [exception |-> "none", value |-> v]

Raised(exc) == [exception |-> exc, value |-> None]

\* convert_scryfall_to_ir run from call to return with no other code in between
convert_scryfall_to_ir(data, rules, order, now) ==
  LET card_metadata == extract_metadata(data)
      parsed_abilities == parse_abilities(data)
      card_data == [card_metadata |-> card_metadata, parsed_abilities |-> parsed_abilities]
  IN IF generate_tags_raises(card_data) THEN Raised("KeyError")
     ELSE Returned(CardIR(now, card_metadata, parsed_abilities,
                          generate_tags(card_data, rules, order),
                          extract_legality(data),
                          extract_gameplay_metadata(data)))

----------------------------------------------------------------------------
(* Input records                                                           *)

\* the fields of a Scryfall record that the program consumes
Fields == {"name", "oracle_id", "id", "mana_cost", "cmc", "type_line", "oracle_text",
           "colors", "color_identity", "keywords", "power", "toughness", "loyalty",
           "legalities"}

\* a dict holding the keys P of record full
Restrict(full, P) == [k \in P |-> full[k]]

\* values of the fields of the input records
NameKozilek == <<"K","o","z","i","l","e","k"," ","P","r","i","m","e">>  \* 'Kozilek Prime'

NameBolt == <<"L","i","g","h","t","n","i","n","g"," ","B","o","l","t">>  \* 'Lightning Bolt'

TypeInstant == <<"I","n","s","t","a","n","t">>  \* 'Instant'

TypeSorcery == <<"S","o","r","c","e","r","y">>  \* 'Sorcery'

TypeCreature == <<"C","r","e","a","t","u","r","e">>  \* 'Creature'

TypeLegendaryCreature == <<"L","e","g","e","n","d","a","r","y"," ","C","r","e","a","t","u","r","e">>  \* 'Legendary Creature'

TypeArtifact == <<"A","r","t","i","f","a","c","t">>  \* 'Artifact'

TypeLegendaryArtifact == <<"L","e","g","e","n","d","a","r","y"," ","A","r","t","i","f","a","c","t">>  \* 'Legendary Artifact'

TypeLand == <<"L","a","n","d">>  \* 'Land'

OracleId == <<"o","1">>  \* 'o1'

ScryfallId == <<"i","1">>  \* 'i1'

ManaCost == <<"{","R","}">>  \* '{R}'

KeywordFlying == <<"F","l","y","i","n","g">>  \* 'Flying'

Legal == <<"l","e","g","a","l">>  \* 'legal'

MaxFragments == 2

Fragment1 == <<"D","r","a","w"," ","t","w","o"," ","c","a","r","d","s",".">>  \* 'Draw two cards.'

Fragment2 == <<"I","t"," ","d","e","a","l","s"," ","3"," ","d","a","m","a","g","e"," ","t","o"," ","a","n","y"," ","t","a","r","g","e","t",".">>  \* 'It deals 3 damage to any target.'

Fragment3 == <<"{","T","}",":"," ","A","d","d"," ","{","G","}",".">>  \* '{T}: Add {G}.'

Fragment4 == <<"W","h","e","n"," ","i","t"," ","e","n","t","e","r","s",","," ","s","e","a","r","c","h"," ","y","o","u","r"," ","l","i","b","r","a","r","y",".">>  \* 'When it enters, search your library.'

Fragment5 == <<"F","l","y","i","n","g">>  \* 'Flying'

Fragment6 == <<"D","e","s","t","r","o","y"," ","i","t",".">>  \* 'Destroy it.'

Fragment7 == <<"F","l","a","s","h","\n">>  \* 'Flash\n'

Fragment8 == <<"W","h","e","n","e","v","e","r"," ","i","t"," ","d","i","e","s",","," ","e","a","c","h"," ","p","l","a","y","e","r"," ","l","o","s","e","s",".">>  \* 'Whenever it dies, each player loses.'

Fragments == {Fragment1, Fragment2, Fragment3, Fragment4, Fragment5, Fragment6, Fragment7, Fragment8}

RECURSIVE Join(_)
Join(fs) == IF fs = <<>> THEN <<>> ELSE Head(fs) \o Join(Tail(fs))

\* oracle texts: up to MaxFragments fragments in a row (the empty text included)
Texts == {Join(fs) : fs \in UNION {[1..n -> Fragments] : n \in 0..MaxFragments}}

TypeLines == {<<>>, TypeInstant, TypeSorcery, TypeCreature,
              TypeLegendaryCreature, TypeArtifact, TypeLegendaryArtifact, TypeLand}

Cmcs == {2, 3}

\* a record with every consumed field present
FullCard(name, cmc, type_line, oracle_text) ==
  [name |-> name, oracle_id |-> OracleId, id |-> ScryfallId,
   mana_cost |-> ManaCost, cmc |-> cmc, type_line |-> type_line,
   oracle_text |-> oracle_text, colors |-> <<<<"R">>>>, color_identity |-> <<<<"R">>>>,
   keywords |-> <<KeywordFlying>>, power |-> <<"4">>, toughness |-> <<"5">>,
   loyalty |-> <<"3">>, legalities |-> [commander |-> Legal]]

BaseCard == FullCard(NameKozilek, 2, TypeLegendaryCreature, Fragment5)

\* every subset of the fields absent from one card
SubsetInputs == {Restrict(BaseCard, P) : P \in SUBSET Fields}

\* every text at every cost, with and without a name
TextInputs ==
  {Restrict(FullCard(NameBolt, cmc, TypeInstant, text), P) :
     text \in Texts, cmc \in Cmcs, P \in {Fields, Fields \ {"name"}}}

\* every type line, with and without rules text, free and expensive, with and
\* without a commander entry in the legality map
TypeLineInputs ==
  {[FullCard(NameKozilek, cmc, type_line, text) EXCEPT !.legalities = legalities] :
     type_line \in TypeLines, text \in {<<>>, Fragment2}, cmc \in {0, 6},
     legalities \in {EmptyDict, [commander |-> Legal]}}

\* rules texts in which the trigger templates recur, overlap, span a line break
\* or come in upper case
TriggerText1 == <<"A","t"," ","t","h","e"," ","b","e","g","i","n","n","i","n","g"," ","o","f"," ","c","o","m","b","a","t",","," ","w","h","e","n"," ","i","t"," ","e","n","t","e","r","s"," ","o","r"," ","w","h","e","n","e","v","e","r"," ","i","t"," ","d","i","e","s",","," ","d","r","a","w",".","\n","W","h","e","n"," ","i","t"," ","e","n","t","e","r","s",","," ","s","c","r","y",".">>  \* 'At the beginning of combat, when it enters or whenever it dies, draw.\nWhen it enters, scry.'

TriggerText2 == <<"W","h","e","n"," ","i","t"," ","e","n","t","e","r","s",","," ","s","c","r","y",".","\n","W","h","e","n"," ","i","t"," ","e","n","t","e","r","s"," ","a","g","a","i","n",","," ","d","r","a","w",".">>  \* 'When it enters, scry.\nWhen it enters again, draw.'

TriggerText3 == <<"W","h","e","n"," ","i","t"," ","e","n","t","e","r","s"," ","o","r"," ","t","h","a","t"," ","e","n","t","e","r","s",","," ","d","r","a","w",".">>  \* 'When it enters or that enters, draw.'

TriggerText4 == <<"W","h","e","n","e","v","e","r"," ","i","t"," ","d","i","e","s",","," ","s","c","r","y",".","\n","W","h","e","n","e","v","e","r"," ","i","t"," ","d","i","e","s",","," ","d","r","a","w",".">>  \* 'Whenever it dies, scry.\nWhenever it dies, draw.'

TriggerText5 == <<"W","h","e","n"," ","i","t","\n","d","i","e","s",","," ","w","h","e","n"," ","t","h","a","t"," ","e","n","t","e","r","s",","," ","d","r","a","w",".">>  \* 'When it\ndies, when that enters, draw.'

TriggerText6 == <<"A","t"," ","t","h","e"," ","b","e","g","i","n","n","i","n","g"," ","a","n","d"," ","a","t"," ","t","h","e"," ","b","e","g","i","n","n","i","n","g",".">>  \* 'At the beginning and at the beginning.'

TriggerText7 == <<"W","H","E","N","E","V","E","R"," ","I","T"," ","D","I","E","S"," ","O","R"," ","T","H","A","T"," ","D","I","E","S",","," ","W","I","N",".">>  \* 'WHENEVER IT DIES OR THAT DIES, WIN.'

TriggerText8 == <<"W","h","e","n"," ","e","n","t","e","r","s",","," ","w","h","e","n","e","v","e","r"," ","d","i","e","s",".">>  \* 'When enters, whenever dies.'

TriggerTexts == {TriggerText1, TriggerText2, TriggerText3, TriggerText4, TriggerText5, TriggerText6, TriggerText7, TriggerText8}

TriggerInputs == {FullCard(NameBolt, 3, TypeCreature, text) : text \in TriggerTexts}

Inputs == SubsetInputs \cup TextInputs \cup TypeLineInputs \cup TriggerInputs

----------------------------------------------------------------------------
(* State                                                                   *)

VARIABLES
  TAG_RULES,    \* the class attribute StrategicTagger.TAG_RULES
  hash_order,   \* iteration order of a set of tag names in this process
  clock,        \* datetime.utcnow()
  data,         \* the argument of a single call of convert_scryfall_to_ir
  ir,           \* how that call ended
  pc,           \* per thread: the statement of convert_scryfall_to_ir it is at
  arg,          \* per thread: scryfall_data of its current or last call
  frame,        \* per thread: the local variables of its call
  ret,          \* per thread: how its last call ended
  input_dir,    \* process_batch: file name -> what reading that file gives
  listing,      \* process_batch: the names input_dir.glob("*.json") yields, in order
  pos,          \* process_batch: index in listing of the file the loop is at
  opened,       \* process_batch: the input files open() has opened, in order
  written,      \* process_batch: the output file names written, in order
  output_dir,   \* process_batch: output file name -> the record dumped into it
  batch         \* process_batch: where the call is and the exception leaving it

shared_vars == <<TAG_RULES, hash_order, clock>>

single_vars == <<data, ir>>

thread_vars == <<pc, arg, frame, ret>>

batch_vars == <<input_dir, listing, pos, opened, written, output_dir, batch>>

vars == <<shared_vars, single_vars, thread_vars, batch_vars>>

\* all tag names, in declaration order and in the opposite order
TagNames ==
  <<"interaction", "removal", "counterspell", "protection", "tempo",
    "low_cost_interaction", "bounce", "value", "card_draw", "tutoring", "ramp",
    "mana_acceleration">>

Reverse(s) == [i \in 1..Len(s) |-> s[Len(s) + 1 - i]]

HashOrders == {TagNames, Reverse(TagNames)}

NotCalled == [exception |-> "not called", value |-> None]

Threads == {"t1", "t2"}

NoFrame ==
  [card_metadata |-> None, parsed_abilities |-> None, strategic_tags |-> None,
   format_legality |-> None, gameplay_metadata |-> None]

MaxClock == 2

InitShared ==
  /\ TAG_RULES = TAG_RULES_DECLARED
  /\ hash_order \in HashOrders
  /\ clock = 0

InitSingleIdle == data = EmptyDict /\ ir = NotCalled

InitThreadsIdle ==
  /\ pc = [t \in Threads |-> "idle"]
  /\ arg = [t \in Threads |-> EmptyDict]
  /\ frame = [t \in Threads |-> NoFrame]
  /\ ret = [t \in Threads |-> NotCalled]

InitBatchIdle ==
  /\ input_dir = EmptyDict
  /\ listing = <<>>
  /\ pos = 0
  /\ opened = <<>>
  /\ written = <<>>
  /\ output_dir = EmptyDict
  /\ batch = [pc |-> "not called", exception |-> "none"]

----------------------------------------------------------------------------
(* One call of convert_scryfall_to_ir on each input record                 *)

Init ==
  /\ InitShared
  /\ data \in Inputs
  /\ ir = NotCalled
  /\ InitThreadsIdle
  /\ InitBatchIdle

\* one call convert_scryfall_to_ir(data)
Convert ==
  /\ ir.exception = "not called"
  /\ ir' = convert_scryfall_to_ir(data, TAG_RULES, hash_order, clock)
  /\ UNCHANGED <<shared_vars, data, thread_vars, batch_vars>>

Next == Convert

Spec == Init /\ [][Next]_vars

----------------------------------------------------------------------------
(* Calls of convert_scryfall_to_ir on one CardIRGenerator from several     *)
(* threads, interleaved statement by statement                             *)

ThreadCard == FullCard(NameBolt, 2, TypeInstant, Fragment2)

ThreadInputs ==
  {Restrict(ThreadCard, Fields),
   Restrict(ThreadCard, Fields \ {"name", "cmc", "legalities"}),
   Restrict(BaseCard, Fields \ {"oracle_text"})}

\* the time passes
Tick ==
  /\ clock < MaxClock
  /\ clock' = clock + 1
  /\ UNCHANGED <<TAG_RULES, hash_order, single_vars, thread_vars, batch_vars>>

\* a caller enters convert_scryfall_to_ir(scryfall_data)
Call(t) ==
  /\ pc[t] = "idle"
  /\ \E d \in ThreadInputs : arg' = [arg EXCEPT ![t] = d]
  /\ pc' = [pc EXCEPT ![t] = "extract_metadata"]
  /\ frame' = [frame EXCEPT ![t] = NoFrame]
  /\ ret' = [ret EXCEPT ![t] = NotCalled]
  /\ UNCHANGED <<shared_vars, single_vars, batch_vars>>

\* card_metadata = self._extract_metadata(scryfall_data)
StepMetadata(t) ==
  /\ pc[t] = "extract_metadata"
  /\ frame' = [frame EXCEPT ![t].card_metadata = extract_metadata(arg[t])]
  /\ pc' = [pc EXCEPT ![t] = "parse_abilities"]
  /\ UNCHANGED <<shared_vars, single_vars, arg, ret, batch_vars>>

\* parsed_abilities = self._parse_abilities(scryfall_data)
StepAbilities(t) ==
  /\ pc[t] = "parse_abilities"
  /\ frame' = [frame EXCEPT ![t].parsed_abilities = parse_abilities(arg[t])]
  /\ pc' = [pc EXCEPT ![t] = "generate_tags"]
  /\ UNCHANGED <<shared_vars, single_vars, arg, ret, batch_vars>>

\* the same statements, with a tagger that deletes from TAG_RULES the rules it applied
StepTagsConsumingRules(t) ==
  /\ pc[t] = "generate_tags"
  /\ LET card_data == [card_metadata |-> frame[t].card_metadata,
                       parsed_abilities |-> frame[t].parsed_abilities]
     IN /\ frame' = [frame EXCEPT ![t].strategic_tags =
                       generate_tags(card_data, TAG_RULES, hash_order)]
        /\ TAG_RULES' = SelectSeq(TAG_RULES, LAMBDA r : ~matcher_fires(r, card_data,
                                   str_lower(card_data.card_metadata.oracle_text)))
  /\ pc' = [pc EXCEPT ![t] = "extract_legality"]
  /\ UNCHANGED <<hash_order, clock, single_vars, arg, ret, batch_vars>>

\* card_data = {...}; strategic_tags = self.strategic_tagger.generate_tags(card_data)
StepTags(t) ==
  /\ pc[t] = "generate_tags"
  /\ LET card_data == [card_metadata |-> frame[t].card_metadata,
                       parsed_abilities |-> frame[t].parsed_abilities]
     IN IF generate_tags_raises(card_data)
        THEN /\ ret' = [ret EXCEPT ![t] = Raised("KeyError")]
             /\ pc' = [pc EXCEPT ![t] = "idle"]
             /\ frame' = frame
        ELSE /\ frame' = [frame EXCEPT ![t].strategic_tags =
                            generate_tags(card_data, TAG_RULES, hash_order)]
             /\ pc' = [pc EXCEPT ![t] = "extract_legality"]
             /\ ret' = ret
  /\ UNCHANGED <<shared_vars, single_vars, arg, batch_vars>>

\* format_legality = self._extract_legality(scryfall_data)
StepLegality(t) ==
  /\ pc[t] = "extract_legality"
  /\ frame' = [frame EXCEPT ![t].format_legality = extract_legality(arg[t])]
  /\ pc' = [pc EXCEPT ![t] = "extract_gameplay_metadata"]
  /\ UNCHANGED <<shared_vars, single_vars, arg, ret, batch_vars>>

\* gameplay_metadata = self._extract_gameplay_metadata(scryfall_data)
StepGameplay(t) ==
  /\ pc[t] = "extract_gameplay_metadata"
  /\ frame' = [frame EXCEPT ![t].gameplay_metadata = extract_gameplay_metadata(arg[t])]
  /\ pc' = [pc EXCEPT ![t] = "return"]
  /\ UNCHANGED <<shared_vars, single_vars, arg, ret, batch_vars>>

\* return CardIR(..., generated_at=datetime.utcnow().isoformat() + "Z", ...)
StepReturn(t) ==
  /\ pc[t] = "return"
  /\ ret' = [ret EXCEPT ![t] =
               Returned(CardIR(clock, frame[t].card_metadata, frame[t].parsed_abilities,
                               frame[t].strategic_tags, frame[t].format_legality,
                               frame[t].gameplay_metadata))]
  /\ pc' = [pc EXCEPT ![t] = "idle"]
  /\ frame' = [frame EXCEPT ![t] = NoFrame]
  /\ UNCHANGED <<shared_vars, single_vars, arg, batch_vars>>

InitThreads ==
  /\ InitShared
  /\ InitSingleIdle
  /\ InitThreadsIdle
  /\ InitBatchIdle

NextThreads ==
  \/ Tick
  \/ \E t \in Threads :
       \/ Call(t)
       \/ StepMetadata(t)
       \/ StepAbilities(t)
       \/ StepTags(t)
       \/ StepLegality(t)
       \/ StepGameplay(t)
       \/ StepReturn(t)

SpecThreads == InitThreads /\ [][NextThreads]_vars

----------------------------------------------------------------------------
(* process_batch and process_file                                          *)

N_SAMPLE_A == <<"s","a","m","p","l","e","_","c","a","r","d","_","a",".","j","s","o","n">>  \* 'sample_card_a.json'

N_SAMPLE_B == <<"s","a","m","p","l","e","_","c","a","r","d","_","b",".","j","s","o","n">>  \* 'sample_card_b.json'

N_SAMPLE_IR == <<"s","a","m","p","l","e","_","c","a","r","d","_","i","r","_","a",".","j","s","o","n">>  \* 'sample_card_ir_a.json'

N_SAMPLE_TXT == <<"s","a","m","p","l","e","_","c","a","r","d","_","c",".","t","x","t">>  \* 'sample_card_c.txt'

N_OTHER == <<"n","o","t","e","s",".","j","s","o","n">>  \* 'notes.json'

FileNames == {N_SAMPLE_A, N_SAMPLE_B, N_SAMPLE_IR, N_SAMPLE_TXT, N_OTHER}

\* what happens to a file in process_file: it is converted and dumped, open() of
\* the input fails, json.load fails, or open() of the output fails
FileKinds == {"ok", "unreadable", "malformed", "unwritable"}

\* the files whose fate varies; the other files hold a well-formed record
VaryingFiles == {N_SAMPLE_A, N_SAMPLE_B}

\* the record a well-formed file holds
FileRecord(name) ==
  IF name = N_SAMPLE_A THEN Restrict(ThreadCard, Fields)
  ELSE Restrict(BaseCard, Fields \ {"power", "toughness", "loyalty"})

\* str.endswith
str_endswith(s, p) == MatchAt(p, s, Len(s) - Len(p) + 1)

\* Path.glob("*.json") over the names of a directory
glob_json(names) == {n \in names : str_endswith(n, GENERATOR_TEXT.dot_json)}

\* the if statement without its second test
is_sample_card_any(name) == str_startswith(name, GENERATOR_TEXT.sample_card_)

\* json_file.name.startswith("sample_card_") and not
\* json_file.name.startswith("sample_card_ir_")
is_sample_card(name) ==
  str_startswith(name, GENERATOR_TEXT.sample_card_) /\ ~str_startswith(name, GENERATOR_TEXT.sample_card_ir_)

\* output_dir / f"ir_{json_file.name}"
output_name(name) == GENERATOR_TEXT.ir_ \o name

\* the exception that leaves process_file for a file of each kind
exception_of(kind) ==
  CASE kind = "unreadable" -> "PermissionError"
    [] kind = "malformed"  -> "JSONDecodeError"
    [] kind = "unwritable" -> "OSError"
    [] OTHER               -> "none"

\* the sequences that list every element of a finite set exactly once
Orderings(S) ==
  {s \in [1..Cardinality(S) -> S] : \A i, j \in 1..Cardinality(S) : s[i] = s[j] => i = j}

\* output_dir.mkdir(parents=True, exist_ok=True), taken to succeed; the glob is
\* listed in directory order, which the file system decides
BatchStart ==
  /\ batch.pc = "not called"
  /\ listing' \in Orderings(glob_json(DOMAIN input_dir))
  /\ pos' = 1
  /\ batch' = [batch EXCEPT !.pc = "loop"]
  /\ UNCHANGED <<shared_vars, single_vars, thread_vars, input_dir, opened, written,
                 output_dir>>

\* process_file called inside  try: ... except Exception: continue
ProcessFileCatching ==
  LET name == listing[pos]
      kind == input_dir[name].kind
      card_ir == convert_scryfall_to_ir(input_dir[name].record, TAG_RULES, hash_order, clock)
  IN /\ opened' = IF kind # "unreadable" THEN Append(opened, name) ELSE opened
     /\ pos' = pos + 1
     /\ batch' = batch
     /\ IF kind = "ok" /\ card_ir.exception = "none"
        THEN /\ written' = Append(written, output_name(name))
             /\ output_dir' = [n \in DOMAIN output_dir \cup {output_name(name)} |->
                                 IF n = output_name(name) THEN card_ir.value
                                 ELSE output_dir[n]]
        ELSE UNCHANGED <<written, output_dir>>

\* process_file(input_file, output_file) on the file at pos
ProcessFile ==
  LET name == listing[pos]
      kind == input_dir[name].kind
      card_ir == convert_scryfall_to_ir(input_dir[name].record, TAG_RULES, hash_order, clock)
  IN /\ opened' = IF kind # "unreadable" THEN Append(opened, name) ELSE opened
     /\ IF kind = "ok" /\ card_ir.exception = "none"
        THEN /\ written' = Append(written, output_name(name))
             /\ output_dir' = [n \in DOMAIN output_dir \cup {output_name(name)} |->
                                 IF n = output_name(name) THEN card_ir.value
                                 ELSE output_dir[n]]
             /\ pos' = pos + 1
             /\ batch' = batch
        ELSE /\ batch' = [pc |-> "raised",
                          exception |-> IF kind = "ok" THEN card_ir.exception
                                        ELSE exception_of(kind)]
             /\ UNCHANGED <<written, output_dir, pos>>

\* one iteration of the for loop over a file the if statement lets through
BatchProcess ==
  /\ batch.pc = "loop"
  /\ pos <= Len(listing)
  /\ is_sample_card(listing[pos])
  /\ ProcessFile
  /\ UNCHANGED <<shared_vars, single_vars, thread_vars, input_dir, listing>>

\* one iteration of the for loop over a file the if statement rejects
BatchSkip ==
  /\ batch.pc = "loop"
  /\ pos <= Len(listing)
  /\ ~is_sample_card(listing[pos])
  /\ pos' = pos + 1
  /\ UNCHANGED <<shared_vars, single_vars, thread_vars, input_dir, listing, opened,
                 written, output_dir, batch>>

\* the glob is exhausted: process_batch returns None
BatchReturn ==
  /\ batch.pc = "loop"
  /\ pos > Len(listing)
  /\ batch' = [batch EXCEPT !.pc = "returned"]
  /\ UNCHANGED <<shared_vars, single_vars, thread_vars, input_dir, listing, pos, opened,
                 written, output_dir>>

InitBatch ==
  /\ InitShared
  /\ InitSingleIdle
  /\ InitThreadsIdle
  /\ \E D \in SUBSET FileNames :
       \E kinds \in [D \cap VaryingFiles -> FileKinds] :
         input_dir = [n \in D |->
                        [kind |-> IF n \in VaryingFiles THEN kinds[n] ELSE "ok",
                         record |-> FileRecord(n)]]
  /\ listing = <<>>
  /\ pos = 0
  /\ opened = <<>>
  /\ written = <<>>
  /\ output_dir = EmptyDict
  /\ batch = [pc |-> "not called", exception |-> "none"]

NextBatch ==
  \/ BatchStart
  \/ BatchProcess
  \/ BatchSkip
  \/ BatchReturn

SpecBatch == InitBatch /\ [][NextBatch]_vars

----------------------------------------------------------------------------
(* Properties                                                              *)

\* the single call has returned a CardIR
Converted == ir.exception = "none"

InputText == dict_get(data, "oracle_text", <<>>)

InputTypeLine == dict_get(data, "type_line", <<>>)

HasColon == str_in(PARSER_TEXT.colon, InputText)

HasTriggerWord ==
  \/ str_in(PARSER_TEXT.when, str_lower(InputText))
  \/ str_in(PARSER_TEXT.whenever, str_lower(InputText))
  \/ str_in(PARSER_TEXT.at_the_beginning, str_lower(InputText))

HasKeywordWord ==
  \/ str_in(PARSER_TEXT.flying, str_lower(InputText))
  \/ str_in(PARSER_TEXT.trample, str_lower(InputText))
  \/ str_in(PARSER_TEXT.haste, str_lower(InputText))
  \/ str_in(PARSER_TEXT.vigilance, str_lower(InputText))

\* C4: the ability type of every converted rules text is the first match of:
\* activated if the text holds a colon; else triggered if the lowercased text holds
\* "when", "whenever" or "at the beginning"; else keyword if it holds "flying",
\* "trample", "haste" or "vigilance"; else static.  A colon wins over a trigger word.
C4_AbilityTypePriority ==
  (Converted /\ InputText # <<>>) =>
    LET type == ir.value.parsed_abilities[1].ability_type
    IN /\ HasColon => type = "activated"
       /\ (~HasColon /\ HasTriggerWord) => type = "triggered"
       /\ (~HasColon /\ ~HasTriggerWord /\ HasKeywordWord) => type = "keyword"
       /\ (~HasColon /\ ~HasTriggerWord /\ ~HasKeywordWord) => type = "static"

\* a text with both a colon and a trigger word has been classified
C4_Witness ==
  /\ Converted
  /\ HasColon /\ HasTriggerWord
  /\ ir.value.parsed_abilities[1].ability_type = "activated"

LowerText == str_lower(InputText)

\* C5: card_advantage is in {-1, 0, 1}, the first match of: "draw" gives 1; else
\* "search" gives 0; else "deals", "damage" or "destroy" gives -1; else 0 (tests on
\* the lowercased oracle text).
C5_CardAdvantagePriority ==
  Converted =>
    LET ca == ir.value.strategic_tags.reward_hints.card_advantage
        draw == str_in(TAGGER_TEXT.draw, LowerText)
        search == str_in(TAGGER_TEXT.search, LowerText)
        trade == \/ str_in(TAGGER_TEXT.deals, LowerText)
                 \/ str_in(TAGGER_TEXT.damage, LowerText)
                 \/ str_in(TAGGER_TEXT.destroy, LowerText)
    IN /\ ca \in {-1, 0, 1}
       /\ draw => ca = 1
       /\ (~draw /\ search) => ca = 0
       /\ (~draw /\ ~search /\ trade) => ca = -1
       /\ (~draw /\ ~search /\ ~trade) => ca = 0

\* a text with both "draw" and "damage" has been converted and resolves to 1
C5_Witness ==
  /\ Converted
  /\ str_in(TAGGER_TEXT.draw, LowerText) /\ str_in(TAGGER_TEXT.damage, LowerText)
  /\ ir.value.strategic_tags.reward_hints.card_advantage = 1

LowerTypeLine == str_lower(InputTypeLine)

IsPermanentType ==
  \/ str_in(GENERATOR_TEXT.creature, LowerTypeLine)
  \/ str_in(TAGGER_TEXT.artifact, LowerTypeLine)
  \/ str_in(TAGGER_TEXT.enchantment, LowerTypeLine)
  \/ str_in(GENERATOR_TEXT.planeswalker, LowerTypeLine)

IsSpellType == str_in(TAGGER_TEXT.instant, LowerTypeLine) \/ str_in(GENERATOR_TEXT.sorcery, LowerTypeLine)

NoDuplicates(s) == \A i, j \in 1..Len(s) : s[i] = s[j] => i = j

\* C6: zones is hand; then battlefield exactly for creature, artifact, enchantment
\* or planeswalker type lines; then graveyard, exile, library; then stack last
\* exactly when the type line holds neither "instant" nor "sorcery"; no zone twice.
C6_Zones ==
  Converted =>
    LET zones == ir.value.gameplay_metadata.zones
    IN /\ zones[1] = "hand"
       /\ ("battlefield" \in Range(zones)) <=> IsPermanentType
       /\ IsPermanentType => zones[2] = "battlefield"
       /\ LET k == IF IsPermanentType THEN 2 ELSE 1
          IN /\ Len(zones) >= k + 3
             /\ SubSeq(zones, k + 1, k + 3) = <<"graveyard", "exile", "library">>
             /\ IF IsSpellType THEN Len(zones) = k + 3
                ELSE Len(zones) = k + 4 /\ zones[k + 4] = "stack"
       /\ NoDuplicates(zones)

\* an instant has been converted and its zones hold no stack
C6_Witness ==
  /\ Converted
  /\ str_in(TAGGER_TEXT.instant, LowerTypeLine)
  /\ ~IsPermanentType
  /\ ir.value.gameplay_metadata.zones = <<"hand", "graveyard", "exile", "library">>

\* name.lower().replace(' ', '_') + "_main_effect"
IdFromName(name) == str_replace(str_lower(name), " ", "_") \o GENERATOR_TEXT.main_effect

\* C7 as stated: a record with rules text has exactly one ability, whose ability_id
\* is built from the name emitted in card_metadata ("" when the record has no name).
C7_AbilityIdFromEmittedName ==
  (Converted /\ InputText # <<>>) =>
    /\ Len(ir.value.parsed_abilities) = 1
    /\ ir.value.parsed_abilities[1].ability_id = IdFromName(ir.value.card_metadata.name)

\* C7 amended: a record with rules text has exactly one ability; its ability_id is
\* built from the record's name when it has one (the name card_metadata emits),
\* and is "unknown_main_effect" when the record has no name field.
C7_AbilityId ==
  (Converted /\ InputText # <<>>) =>
    /\ Len(ir.value.parsed_abilities) = 1
    /\ ir.value.parsed_abilities[1].raw_text = InputText
    /\ IF "name" \in DOMAIN data
       THEN /\ ir.value.card_metadata.name = data["name"]
            /\ ir.value.parsed_abilities[1].ability_id = IdFromName(data["name"])
       ELSE /\ ir.value.card_metadata.name = <<>>
            /\ ir.value.parsed_abilities[1].ability_id = GENERATOR_TEXT.unknown \o GENERATOR_TEXT.main_effect

\* a record with rules text and no name has been converted
C7_Witness ==
  /\ Converted
  /\ InputText # <<>>
  /\ "name" \notin DOMAIN data
  /\ Len(ir.value.parsed_abilities) = 1

\* C8: a record whose oracle_text is empty or absent has no parsed ability, its
\* flattened tags are the names of the cmc <= 2 rule when it fires and nothing
\* else, and every hierarchical tag has confidence 0.8.
C8_EmptyText ==
  (Converted /\ InputText = <<>>) =>
    LET tags == ir.value.strategic_tags
    IN /\ ir.value.parsed_abilities = <<>>
       /\ Range(tags.flattened_tags) =
            IF dict_get(data, "cmc", 0) <= 2 THEN {"tempo", "low_cost_interaction"} ELSE {}
       /\ \A k \in 1..Len(tags.hierarchical_tags) :
            /\ tags.hierarchical_tags[k].confidence = "0.8"
            /\ tags.hierarchical_tags[k].path = <<"tempo", "low_cost_interaction">>

\* a record without oracle_text and with cmc <= 2 has been converted and tagged
C8_Witness ==
  /\ Converted
  /\ "oracle_text" \notin DOMAIN data
  /\ "cmc" \in DOMAIN data
  /\ Len(ir.value.strategic_tags.hierarchical_tags) = 1
  /\ Range(ir.value.strategic_tags.flattened_tags) = {"tempo", "low_cost_interaction"}

StringFields == {"name", "oracle_id", "mana_cost", "type_line", "oracle_text"}

ListFields == {"colors", "color_identity", "keywords"}

OptionalFields == {"power", "toughness", "loyalty"}

\* C9: the call returns a CardIR whatever subset of the consumed fields is absent:
\* absent string fields become "", absent list fields an empty sequence, absent cmc
\* 0, absent power, toughness and loyalty None, an absent legality map gives
\* commander = "not_legal", fields present are passed on, and every part of the
\* record is produced.
C9_LenientDefaults ==
  (ir.exception # "not called") =>
    /\ ir.exception = "none"
    /\ LET md == ir.value.card_metadata
       IN /\ DOMAIN md = (Fields \ {"id", "legalities"}) \cup {"scryfall_id"}
          /\ \A f \in StringFields \cup ListFields :
               md[f] = IF f \in DOMAIN data THEN data[f] ELSE <<>>
          /\ md.scryfall_id = IF "id" \in DOMAIN data THEN data["id"] ELSE <<>>
          /\ md.cmc = IF "cmc" \in DOMAIN data THEN data["cmc"] ELSE 0
          /\ \A f \in OptionalFields :
               md[f] = IF f \in DOMAIN data THEN data[f] ELSE None
    /\ ("legalities" \notin DOMAIN data) => ir.value.format_legality.commander = GENERATOR_TEXT.not_legal
    /\ ("oracle_text" \notin DOMAIN data) => ir.value.parsed_abilities = <<>>
    /\ DOMAIN ir.value.strategic_tags =
         {"hierarchical_tags", "flattened_tags", "archetype_hints", "reward_hints"}
    /\ ir.value.gameplay_metadata.zones[1] = "hand"
    /\ ir.value.ir_version = GENERATOR_TEXT.ir_version

\* the record with every consumed field absent has been converted
C9_Witness ==
  /\ Converted
  /\ DOMAIN data = {}
  /\ ir.value.card_metadata.cmc = 0
  /\ ir.value.format_legality.commander = GENERATOR_TEXT.not_legal

\* rule n of the declared table fires on the converted record
RuleFires(n) ==
  IF TAG_RULES_DECLARED[n].is_callable
  THEN dict_get(data, "cmc", 0) <= 2
  ELSE \E p \in 1..Len(TAG_RULES_DECLARED[n].patterns) :
         str_in(TAG_RULES_DECLARED[n].patterns[p], LowerText)

FiredRules == {n \in 1..Len(TAG_RULES_DECLARED) : RuleFires(n)}

\* C10: hierarchical_tags holds exactly one entry per rule whose matcher fires and
\* none for any other rule, in declaration order, with confidence 0.9 for a
\* substring list and 0.8 for the metadata predicate; flattened_tags is the
\* duplicate-free set of the category and subcategory names of those paths.
C10_Tags ==
  Converted =>
    LET tags == ir.value.strategic_tags
        fired == Ascending(FiredRules)
    IN /\ Len(tags.hierarchical_tags) = Len(fired)
       /\ \A k \in 1..Len(fired) :
            LET rule == TAG_RULES_DECLARED[fired[k]]
            IN /\ tags.hierarchical_tags[k].path = <<rule.category, rule.subcategory>>
               /\ tags.hierarchical_tags[k].confidence =
                    IF rule.is_callable THEN "0.8" ELSE "0.9"
       /\ Range(tags.flattened_tags) =
            {TAG_RULES_DECLARED[n].category : n \in FiredRules}
            \cup {TAG_RULES_DECLARED[n].subcategory : n \in FiredRules}
       /\ NoDuplicates(tags.flattened_tags)

\* a record on which a substring rule matches two of its substrings and the
\* metadata predicate fires too has been tagged
C10_Witness ==
  /\ Converted
  /\ str_in(TAGGER_TEXT.deals, LowerText) /\ str_in(TAGGER_TEXT.damage, LowerText)
  /\ dict_get(data, "cmc", 0) <= 2
  /\ Len(ir.value.strategic_tags.hierarchical_tags) = 2
  /\ ir.value.strategic_tags.hierarchical_tags[1].confidence = "0.9"
  /\ ir.value.strategic_tags.hierarchical_tags[2].confidence = "0.8"

\* the CardIR that converting record d alone returns, at time 0
ConvertedAlone(d) == convert_scryfall_to_ir(d, TAG_RULES_DECLARED, hash_order, 0).value

\* a CardIR with its timestamp set aside
WithoutTimestamp(card_ir) == [card_ir EXCEPT !.generated_at = 0]

\* C1: whatever the order and interleaving of the calls on one generator, each call
\* returns, in every field except generated_at, what converting its record alone
\* returns, and the class-level rule table is left as declared.
C1_OrderIndependent ==
  /\ TAG_RULES = TAG_RULES_DECLARED
  /\ \A t \in Threads :
       (ret[t].exception # "not called") =>
         /\ ret[t].exception = "none"
         /\ WithoutTimestamp(ret[t].value) = ConvertedAlone(arg[t])

\* two threads have converted the same record at different times
C1_Witness ==
  /\ ret["t1"].exception = "none"
  /\ ret["t2"].exception = "none"
  /\ arg["t1"] = arg["t2"]
  /\ ret["t1"].value.generated_at # ret["t2"].value.generated_at
  /\ WithoutTimestamp(ret["t1"].value) = WithoutTimestamp(ret["t2"].value)

\* the files process_batch is documented to take: *.json files named sample_card_*
\* and not sample_card_ir_*
NamedSampleCard(n) ==
  str_startswith(n, GENERATOR_TEXT.sample_card_) /\ ~str_startswith(n, GENERATOR_TEXT.sample_card_ir_)

Matched(n) == str_endswith(n, GENERATOR_TEXT.dot_json) /\ NamedSampleCard(n)

Occurrences(s, x) == Cardinality({i \in 1..Len(s) : s[i] = x})

\* C2 as stated: a batch that returns has written exactly one output ir_<name> for
\* every file named sample_card_* and not sample_card_ir_*.
C2_EveryNamedFile ==
  (batch.pc = "returned") =>
    \A n \in DOMAIN input_dir :
      NamedSampleCard(n) => Occurrences(written, output_name(n)) = 1

\* C2 amended: only the files matching *.json that are named sample_card_* and not
\* sample_card_ir_* are ever opened or given an output, the output of such a file
\* is ir_<name>, written at most once, and a batch that returns has opened each of
\* them and written exactly one output for each.
C2_BatchFilter ==
  /\ \A n \in DOMAIN input_dir :
       ~Matched(n) => /\ Occurrences(opened, n) = 0
                      /\ Occurrences(written, output_name(n)) = 0
                      /\ output_name(n) \notin DOMAIN output_dir
  /\ Range(written) \subseteq {output_name(n) : n \in {m \in DOMAIN input_dir : Matched(m)}}
  /\ DOMAIN output_dir = Range(written)
  /\ NoDuplicates(written)
  /\ NoDuplicates(opened)
  /\ (batch.pc = "returned") =>
       \A n \in DOMAIN input_dir :
         Matched(n) => /\ Occurrences(opened, n) = 1
                       /\ Occurrences(written, output_name(n)) = 1
                       /\ WithoutTimestamp(output_dir[output_name(n)])
                            = ConvertedAlone(input_dir[n].record)

\* a batch over all five files has returned, with the two outputs written
C2_Witness ==
  /\ batch.pc = "returned"
  /\ DOMAIN input_dir = FileNames
  /\ Range(written) = {output_name(N_SAMPLE_A), output_name(N_SAMPLE_B)}

\* the file at index p of the listing is one process_file fails on
FailsAt(p) == is_sample_card(listing[p]) /\ input_dir[listing[p]].kind # "ok"

\* the loop has been through the file at index p
Processed(p) == pos > p \/ (pos = p /\ batch.pc # "loop")

\* C3: once process_file has failed on a file, process_batch has ended with that
\* file's exception, the loop stays at that file, the file was not tried again and
\* got no output, and no later file of the listing is opened or written.
C3_AbortOnFailure ==
  \A p \in 1..Len(listing) :
    (FailsAt(p) /\ Processed(p)) =>
      /\ batch.pc = "raised"
      /\ pos = p
      /\ batch.exception = exception_of(input_dir[listing[p]].kind)
      /\ Occurrences(opened, listing[p]) <= 1
      /\ output_name(listing[p]) \notin DOMAIN output_dir
      /\ \A q \in (p + 1)..Len(listing) :
           /\ Occurrences(opened, listing[q]) = 0
           /\ Occurrences(written, output_name(listing[q])) = 0
           /\ output_name(listing[q]) \notin DOMAIN output_dir

\* the batch has failed on a file with a well-formed sample card still to come
C3_Witness ==
  /\ batch.pc = "raised"
  /\ batch.exception = "JSONDecodeError"
  /\ \E q \in (pos + 1)..Len(listing) :
       /\ is_sample_card(listing[q])
       /\ input_dir[listing[q]].kind = "ok"
       /\ Occurrences(opened, listing[q]) = 0

\* the spans <<i, e>> of the lowercased rules text that begin with pre and end with
\* post, the two not overlapping and no line break between them
TemplateSpans(pre, post) ==
  LET starts == {i \in 1..Len(LowerText) : MatchAt(pre, LowerText, i)}
      ends == {j + Len(post) - 1 : j \in {j \in 1..Len(LowerText) : MatchAt(post, LowerText, j)}}
  IN {sp \in starts \X ends :
        /\ sp[2] - Len(post) >= sp[1] + Len(pre) - 1
        /\ \A k \in (sp[1] + Len(pre))..(sp[2] - Len(post)) : LowerText[k] # "\n"}

\* the first match among spans: the leftmost start, and from it the farthest end
FirstSpan(spans) ==
  CHOOSE sp \in spans : \A o \in spans : sp[1] < o[1] \/ (sp[1] = o[1] /\ sp[2] >= o[2])

EntersSpans == TemplateSpans(PARSER_TEXT.when_, PARSER_TEXT.enters)

DiesSpans == TemplateSpans(PARSER_TEXT.whenever_, PARSER_TEXT.dies)

\* the position of a timing label in the template order
TimingRank(timing) ==
  CASE timing = "when" -> 1 [] timing = "whenever" -> 2 [] timing = "at" -> 3

\* C11: the triggers of every converted rules text are at most three entries, at
\* most one per template ("when ... enters" with timing when, "whenever ... dies"
\* with timing whenever, "at the beginning" with timing at), an entry being present
\* exactly when its template matches the lowercased text, the entries in template
\* order, and the condition of an entry the span of the first match of its template
\* only, however many times the template occurs.
C11_FirstMatchOnly ==
  (Converted /\ InputText # <<>>) =>
    LET triggers == ir.value.parsed_abilities[1].parsed_components.triggers
        Entries(timing) == {k \in 1..Len(triggers) : triggers[k].timing = timing}
        Span(sp) == SubSeq(LowerText, sp[1], sp[2])
    IN /\ Len(triggers) <= 3
       /\ \A k \in 1..Len(triggers) : triggers[k].timing \in {"when", "whenever", "at"}
       /\ \A timing \in {"when", "whenever", "at"} : Cardinality(Entries(timing)) <= 1
       /\ Entries("when") # {} <=> EntersSpans # {}
       /\ Entries("whenever") # {} <=> DiesSpans # {}
       /\ Entries("at") # {} <=> str_in(PARSER_TEXT.at_the_beginning, LowerText)
       /\ \A k, l \in 1..Len(triggers) :
            k < l => TimingRank(triggers[k].timing) < TimingRank(triggers[l].timing)
       /\ \A k \in Entries("when") : triggers[k].condition = Span(FirstSpan(EntersSpans))
       /\ \A k \in Entries("whenever") : triggers[k].condition = Span(FirstSpan(DiesSpans))
       /\ \A k \in Entries("at") : triggers[k].condition = PARSER_TEXT.at_the_beginning

\* a text in which all three templates match and "when ... enters" occurs again on
\* a later line has been parsed into three entries, the first of them ending before
\* the second occurrence begins
C11_Witness ==
  /\ Converted
  /\ InputText # <<>>
  /\ DiesSpans # {}
  /\ str_in(PARSER_TEXT.at_the_beginning, LowerText)
  /\ Len(ir.value.parsed_abilities[1].parsed_components.triggers) = 3
  /\ \E a, b \in EntersSpans :
       a[1] + Len(ir.value.parsed_abilities[1].parsed_components.triggers[1].condition) - 1 < b[1]

====
